---- MODULE Spec2Model ----
(***************************************************************************)
(* A model of the WowDBC::DBCFile extension (src/ext/wow_dbc/wow_dbc.c):   *)
(* the DBCFile struct (header, record pointer array, string block, schema) *)
(* and the methods registered in Init_wow_dbc, one action per method.      *)
(*                                                                         *)
(* Number representation.  A 32-bit cell is held as the signed integer     *)
(* that has the same bit pattern (0xFFFFFFFF is -1), so every cell fits    *)
(* the checker's integers.  A Ruby Integer v is the pair (w, s) with       *)
(* v = w * 2^32 + s and s a signed 32-bit value, so 2^32 is (1, 0) and     *)
(* 4294967295 is (1, -1).  A Ruby Float d is the pair (f, r): f the bits   *)
(* of the IEEE single nearest to d and r the signed remainder d - f in     *)
(* units of the double's last place, so (float)d is f and r = 0 exactly    *)
(* when d is representable as a single.                                    *)
(***************************************************************************)
EXTENDS Integers, Sequences, FiniteSets, TLC

VARIABLES
    field_definitions,  \* DBCFile.field_definitions: the schema, an ordered hash name -> type
    header,             \* DBCFile.header
    records,            \* DBCFile.records: NULL or the array of record pointers
    string_block,       \* DBCFile.string_block: NULL or the bytes
    result              \* the last method call: its name, arguments and outcome

vars == <<field_definitions, header, records, string_block, result>>

\* Bound: create_record and create_record_with_values are not called once the
\* table has this many records; files declare at most this many records.
MaxRecords == 2

\* typedef enum FieldType: the enumerators' values (memset 0 yields TYPE_UINT32).
TYPE_UINT32 == 0
TYPE_INT32 == 1
TYPE_FLOAT == 2
TYPE_STRING == 3

\* The value of memory that was allocated and never written.
INDET == 0 - 1

(***************************************************************************)
(* Ruby values                                                             *)
(***************************************************************************)
Qnil == [k |-> "nil"]
RInt(w, s) == [k |-> "Integer", w |-> w, s |-> s]
RFloat(f, r) == [k |-> "Float", f |-> f, r |-> r]
RStr(t) == [k |-> "String", t |-> t]
RSym(id) == [k |-> "Symbol", id |-> id]
RHash(pairs) == [k |-> "Hash", pairs |-> pairs]

\* rb_eql(a, b): a.eql?(b) is equality of class and value for Integer, Float,
\* String, Symbol and nil, which the representations above make structural.
rb_eql(a, b) == a = b

\* An outcome of a call that may raise or, on undefined behaviour, crash.
Ok(v) == [st |-> "ok", v |-> v]
Raise(e) == [st |-> "raise", err |-> e]
Crash == [st |-> "crash"]

\* The outcome o of a call that opened a file, with the state its FILE handle
\* is in when the call is left: "closed" after fclose, "open" without it.
Leaving(o, handle) ==
    [st |-> o.st, v |-> IF o.st = "ok" THEN o.v ELSE Qnil,
     err |-> IF o.st = "raise" THEN o.err ELSE "", handle |-> handle]

\* rb_hash_aref(hash, key): the value stored under key, nil when absent.
rb_hash_aref(hash, key) ==
    LET hits == {i \in 1..Len(hash) : rb_eql(hash[i][1], key)}
    IN  IF hits = {} THEN Qnil ELSE hash[CHOOSE i \in hits : TRUE][2]

\* rb_hash_aset(hash, key, val): replaces the value of an existing key in place,
\* appends a new key.
rb_hash_aset(hash, key, val) ==
    LET hits == {i \in 1..Len(hash) : rb_eql(hash[i][1], key)}
    IN  IF hits = {} THEN Append(hash, <<key, val>>)
        ELSE [hash EXCEPT ![CHOOSE i \in hits : TRUE] = <<key, val>>]

\* hash.keys, in insertion order.
HashKeys(hash) == [i \in 1..Len(hash) |-> hash[i][1]]

\* rb_ary_entry(ary, j) for a 0-based j: nil outside the array.
rb_ary_entry(ary, j) == IF j >= 0 /\ j < Len(ary) THEN ary[j + 1] ELSE Qnil

(***************************************************************************)
(* Numeric conversions of the Ruby C API, as ruby_to_field_value and       *)
(* field_value_to_ruby use them.                                           *)
(***************************************************************************)
RECURSIVE Log2(_)
Log2(n) == IF n <= 1 THEN 0 ELSE 1 + Log2(n \div 2)

Abs(n) == IF n < 0 THEN 0 - n ELSE n

\* The bits of a single below its sign bit.
FloatMag(f) == IF f >= 0 THEN f ELSE (f + 2^30) + 2^30

\* The bits of the single with magnitude bits m and the given sign.
FloatSigned(m, negative) == IF negative THEN (m - 2^30) - 2^30 ELSE m

\* The single nearest to the integer w * 2^32 + s (round to nearest, ties to
\* even), for |v| < 2^31 and for the multiples of 2^32 below 2^56.
IntToFloatBits(w, s) ==
    CASE w = 0 /\ s = 0 -> 0
      [] w = 0 /\ s # 0 ->
            LET m == Abs(s)
                e == Log2(m)
            IN  IF e <= 23
                THEN FloatSigned((127 + e) * 2^23 + (m - 2^e) * 2^(23 - e), s < 0)
                ELSE LET unit == 2^(e - 23)
                         q == (m - 2^e) \div unit
                         rem == (m - 2^e) % unit
                         up == rem * 2 > unit \/ (rem * 2 = unit /\ q % 2 = 1)
                     IN  FloatSigned((127 + e) * 2^23 + q + (IF up THEN 1 ELSE 0), s < 0)
      [] w # 0 /\ s = 0 /\ Abs(w) < 2^24 ->
            LET m == Abs(w)
                e == Log2(m)
            IN  FloatSigned((127 + 32 + e) * 2^23 + (m - 2^e) * 2^(23 - e), w < 0)

\* The integer part (toward zero) of the double (f, r), for |d| < 2^31.
FloatTrunc(f, r) ==
    LET mag == FloatMag(f)
        e == (mag \div 2^23) - 127
        mant == 2^23 + (mag % 2^23)
        neg == f < 0
    IN  CASE e < 0 -> 0
          [] e >= 0 /\ e <= 23 ->
                LET ip == mant \div 2^(23 - e)
                    whole == mant % 2^(23 - e) = 0
                    \* d lies strictly inside (ip - 1, ip) when the single is a
                    \* whole number and d is nearer to zero than it
                    inside == whole /\ ((~neg /\ r < 0) \/ (neg /\ r > 0))
                    a == IF inside THEN ip - 1 ELSE ip
                IN  IF neg THEN 0 - a ELSE a
          [] e > 23 /\ e <= 30 -> LET a == mant * 2^(e - 23) IN IF neg THEN 0 - a ELSE a

\* rb_num2long's first step on a numeric: the Integer itself, a Float truncated.
\* Anything else has no implicit conversion (TypeError).
NumToInteger(v) ==
    CASE v.k = "Integer" -> Ok(v)
      [] v.k = "Float" ->
            IF (FloatMag(v.f) \div 2^23) - 127 > 30
            THEN Raise("RangeError")
            ELSE Ok(RInt(0, FloatTrunc(v.f, v.r)))
      [] OTHER -> Raise("TypeError")

\* check_uint: the range NUM2UINT accepts is INT_MIN .. UINT_MAX, a negative
\* value wrapping to its two's complement; the result is the 32-bit cell.
check_uint(n) ==
    IF n.st # "ok" THEN n
    ELSE IF n.v.w = 0 \/ (n.v.w = 1 /\ n.v.s < 0) THEN Ok(n.v.s)
    ELSE Raise("RangeError")

\* check_int: the range NUM2INT accepts is INT_MIN .. INT_MAX.
check_int(n) ==
    IF n.st # "ok" THEN n
    ELSE IF n.v.w = 0 THEN Ok(n.v.s)
    ELSE Raise("RangeError")

\* NUM2UINT(v): the value as a long, then the range check.
NUM2UINT(v) == check_uint(NumToInteger(v))

\* NUM2INT(v): the value as a long, then the range check.
NUM2INT(v) == check_int(NumToInteger(v))

\* (float)NUM2DBL(v): the bits of the single nearest to v.
NUM2FLT(v) ==
    CASE v.k = "Float" -> Ok(v.f)
      [] v.k = "Integer" -> Ok(IntToFloatBits(v.w, v.s))
      [] OTHER -> Raise("TypeError")

\* UINT2NUM(cell): the cell read as unsigned.
UINT2NUM(c) == RInt(IF c < 0 THEN 1 ELSE 0, c)

\* INT2NUM(cell): the cell read as signed.
INT2NUM(c) == RInt(0, c)

\* DBL2NUM(cell.float_value): the single widened to a double, exactly.
DBL2NUM(c) == RFloat(c, 0)

(***************************************************************************)
(* Field types and field values                                            *)
(***************************************************************************)
\* rb_intern(StringValueCStr(s)): the identifier a String's bytes spell.
rb_intern(t) ==
    CASE t = <<117, 105, 110, 116, 51, 50>> -> "uint32"
      [] t = <<105, 110, 116, 51, 50>> -> "int32"
      [] t = <<102, 108, 111, 97, 116>> -> "float"
      [] t = <<115, 116, 114, 105, 110, 103>> -> "string"
      [] OTHER -> "?"

\* ruby_to_field_type(type_value): the FieldType a schema entry names.
ruby_to_field_type(type_value) ==
    IF type_value.k \notin {"Symbol", "String"}
    THEN Raise("TypeError")
    ELSE LET type_id == IF type_value.k = "Symbol" THEN type_value.id
                        ELSE rb_intern(type_value.t)
         IN  CASE type_id = "uint32" -> Ok(TYPE_UINT32)
               [] type_id = "int32" -> Ok(TYPE_INT32)
               [] type_id = "float" -> Ok(TYPE_FLOAT)
               [] type_id = "string" -> Ok(TYPE_STRING)
               [] OTHER -> Raise("ArgumentError")

\* struct FieldValue: the tag and the 4-byte union.  vset is FALSE while the
\* union holds what ALLOC_N left there; type is INDET while the tag does.
FV(t, v) == [type |-> t, value |-> v, vset |-> TRUE]
IndetFV == [type |-> INDET, value |-> 0, vset |-> FALSE]

\* The value a call builds from bytes that are no part of the table
\* (indeterminate memory, memory outside a buffer): some Ruby value, unspecified.
RGarbage == [k |-> "garbage"]

\* The 4-byte cells an indeterminate union may be written to a file as.
GarbageCells == {0, 0 - 1}

\* strlen from byte p (1-based) of the block: the text up to the next zero
\* byte, for a scan that stays inside the block and meets no indeterminate byte.
RECURSIVE ScanText(_, _)
ScanText(bytes, p) ==
    IF bytes[p] = 0 THEN << >> ELSE <<bytes[p]>> \o ScanText(bytes, p + 1)

\* Whether that scan leaves the block: no zero byte from p to its end.
RECURSIVE ScanLeavesBlock(_, _)
ScanLeavesBlock(bytes, p) ==
    IF p > Len(bytes) THEN TRUE
    ELSE IF bytes[p] = 0 THEN FALSE
    ELSE ScanLeavesBlock(bytes, p + 1)

\* Whether that scan meets an indeterminate byte before a zero byte.
RECURSIVE ScanMeetsIndeterminate(_, _)
ScanMeetsIndeterminate(bytes, p) ==
    IF p > Len(bytes) THEN FALSE
    ELSE IF bytes[p] = 0 THEN FALSE
    ELSE IF bytes[p] = INDET THEN TRUE
    ELSE ScanMeetsIndeterminate(bytes, p + 1)

\* rb_str_new2(&string_block[offset]): no bounds check.  A NULL block with
\* offset 0 is the NULL pointer rb_str_new2 rejects; any other read outside the
\* block is undefined: a crash, or a string of the bytes found there.
StringAt(sb, offset) ==
    IF sb.null
    THEN (IF offset = 0 THEN {Raise("ArgumentError: NULL pointer given")} ELSE {Crash})
    ELSE IF offset >= 0 /\ offset < Len(sb.bytes)
         THEN (IF ScanMeetsIndeterminate(sb.bytes, offset + 1) THEN {Ok(RGarbage)}
               ELSE IF ScanLeavesBlock(sb.bytes, offset + 1) THEN {Ok(RGarbage), Crash}
               ELSE {Ok(RStr(ScanText(sb.bytes, offset + 1)))})
         ELSE {Ok(RGarbage), Crash}

\* field_value_to_ruby(value, string_block): the outcomes of the call.  An
\* indeterminate tag may select any branch of the switch, or none; an
\* indeterminate union is read as it is.
field_value_to_ruby(fv, sb) ==
    IF fv.type = INDET THEN {Ok(RGarbage), Crash}
    ELSE IF ~fv.vset
    THEN (IF fv.type = TYPE_STRING THEN {Ok(RGarbage), Crash} ELSE {Ok(RGarbage)})
    ELSE CASE fv.type = TYPE_UINT32 -> {Ok(UINT2NUM(fv.value))}
           [] fv.type = TYPE_INT32 -> {Ok(INT2NUM(fv.value))}
           [] fv.type = TYPE_FLOAT -> {Ok(DBL2NUM(fv.value))}
           [] fv.type = TYPE_STRING -> StringAt(sb, fv.value)

\* The field after the switch of ruby_to_field_value: the tag is written first,
\* then the converted value c; a conversion that raises leaves the new tag over
\* the old union.
FieldStored(c, type, fv) ==
    IF c.st = "ok" THEN [st |-> "ok", fv |-> FV(type, c.v)]
    ELSE [st |-> "raise", err |-> c.err, fv |-> [fv EXCEPT !.type = type]]

\* ruby_to_field_value(ruby_value, type, field_value): the conversion the tag
\* selects; a string field stores the value as an offset (NUM2UINT).
ruby_to_field_value(ruby_value, type, fv) ==
    FieldStored(CASE type = TYPE_UINT32 -> NUM2UINT(ruby_value)
                  [] type = TYPE_INT32 -> NUM2INT(ruby_value)
                  [] type = TYPE_FLOAT -> NUM2FLT(ruby_value)
                  [] type = TYPE_STRING -> NUM2UINT(ruby_value),
                type, fv)

(***************************************************************************)
(* The table: struct DBCFile                                               *)
(***************************************************************************)
\* DBCHeader.
Header(magic, rc, fc, rs, sbs) ==
    [magic |-> magic, record_count |-> rc, field_count |-> fc,
     record_size |-> rs, string_block_size |-> sbs]

\* One element of the records array: a pointer, with what it points to.
\*   live    a record buffer this table allocated and stored here
\*   orphan  a buffer create_record_with_values stored here and then raised
\*           before counting it (its contents are not kept: no call reads them)
\*   stale   the pointer delete_record left behind in the last counted element:
\*           freed, or a second copy of the pointer now one element lower
\*   indet   an element ALLOC_N or REALLOC_N made and nothing has written
LiveSlot(rec) == [st |-> "live", rec |-> rec]
OrphanSlot == [st |-> "orphan", rec |-> << >>]
StaleSlot == [st |-> "stale", rec |-> << >>]
IndetSlot == [st |-> "indet", rec |-> << >>]

NullRecords == [null |-> TRUE, slot |-> << >>]
NullBlock == [null |-> TRUE, bytes |-> << >>]

\* FIX2LONG(index) < 0, for the long w * 2^32 + s.
LongNegative(idx) == idx.w < 0 \/ (idx.w = 0 /\ idx.s < 0)

\* (uint32_t)idx >= count: the cast keeps the low 32 bits of the long.
U32AtLeast(idx, count) == ~(idx.s >= 0 /\ idx.s < count)

\* Whether element idx of the records array lies inside the array.
InArray(recs, idx) == ~recs.null /\ idx.w = 0 /\ idx.s >= 0 /\ idx.s < Len(recs.slot)

\* dbc->records[idx] read as a record of fc fields: the record a live element
\* points to; through NULL a crash; through any other pointer a crash or the
\* bytes found there.
FetchRecord(recs, fc, idx) ==
    IF recs.null THEN {Crash}
    ELSE IF InArray(recs, idx) /\ recs.slot[idx.s + 1].st = "live"
         THEN {Ok(recs.slot[idx.s + 1].rec)}
         ELSE {Crash, Ok([j \in 1..fc |-> IndetFV])}

\* records[i][j] for a 0-based j: past the buffer's end, whatever lies there.
FieldAt(rec, j) == IF j < Len(rec) THEN rec[j + 1] ELSE IndetFV

\* The loop that fills a Ruby hash from one record (dbc_get_record, dbc_find_by).
RECURSIVE BuildHash(_, _, _, _, _, _)
BuildHash(rec, names, fc, sb, j, acc) ==
    IF j >= fc THEN {Ok(RHash(acc))}
    ELSE UNION {IF o.st = "ok"
                THEN BuildHash(rec, names, fc, sb, j + 1,
                               rb_hash_aset(acc, rb_ary_entry(names, j), o.v))
                ELSE {o} : o \in field_value_to_ruby(FieldAt(rec, j), sb)}

\* The scan of the schema's keys for a field name: its 0-based position, -1 if absent.
FieldIndex(names, field_name) ==
    LET hits == {i \in 1..Len(names) : rb_eql(names[i], field_name)}
    IN  IF hits = {} THEN 0 - 1 ELSE (CHOOSE i \in hits : \A h \in hits : i <= h) - 1

\* REALLOC_N(dbc->records, FieldValue *, n): the first n elements kept, new ones
\* indeterminate.
ReallocSlots(recs, n) ==
    [null |-> FALSE,
     slot |-> [i \in 1..n |-> IF i <= Len(recs.slot) THEN recs.slot[i] ELSE IndetSlot]]

(***************************************************************************)
(* Files.  A file is its header words, the 4-byte cells of its record      *)
(* block and the bytes of its string block; a truncated file has fewer of  *)
(* them.  No file here holds bytes between the two blocks.                 *)
(***************************************************************************)
File(hdr, cells, str) == [exists |-> TRUE, hdr |-> hdr, cells |-> cells, str |-> str]
NoFile == [exists |-> FALSE, hdr |-> << >>, cells |-> << >>, str |-> << >>]

Magic == <<87, 68, 66, 67>>
Strings == <<97, 0, 98, 0>>

\* Two records of two fields, strings "a" and "b".
FileGood == File(<<Magic, 2, 2, 8, 4>>, <<0 - 1, 0, 0 - 1, 2>>, Strings)
\* The same, ending inside the second record.
FileShortRecords == File(<<Magic, 2, 2, 8, 4>>, <<0 - 1, 0, 0 - 1>>, << >>)
\* The same, ending inside the string block.
FileShortStrings == File(<<Magic, 2, 2, 8, 4>>, <<0 - 1, 0, 0 - 1, 2>>, <<97, 0>>)
\* Four bytes: shorter than a header.
FileShortHeader == File(<<Magic>>, << >>, << >>)
\* One record whose second cell, as a string offset, is 0xFFFFFFFF.
FileBadOffset == File(<<Magic, 1, 2, 8, 4>>, <<0 - 1, 0 - 1>>, Strings)
\* One record of one field.
FileOneField == File(<<Magic, 1, 1, 4, 4>>, <<0 - 1>>, Strings)

Files == {NoFile, FileGood, FileShortRecords, FileShortStrings, FileShortHeader,
          FileBadOffset, FileOneField}

\* record_size = 4 * field_count, record_count * field_count cells and
\* string_block_size string bytes.
WellFormed(f) ==
    /\ f.exists
    /\ Len(f.hdr) = 5
    /\ f.hdr[4] = 4 * f.hdr[3]
    /\ Len(f.cells) = f.hdr[2] * f.hdr[3]
    /\ Len(f.str) = f.hdr[5]

(***************************************************************************)
(* Schemas and arguments the callers pass                                  *)
(***************************************************************************)
SchemaA == << <<RSym("id"), RSym("uint32")>>, <<RSym("name"), RSym("string")>> >>
SchemaB == << <<RSym("delta"), RSym("int32")>>,
              <<RSym("weight"), RStr(<<102, 108, 111, 97, 116>>)>> >>
SchemaC == << <<RSym("id"), RSym("uint32")>>, <<RSym("junk"), RSym("blob")>> >>
Schemas == {SchemaA, SchemaB, SchemaC}

\* -1 .. MaxRecords - 1, and 2^32
Indexes == {RInt(0, i) : i \in (0 - 1)..(MaxRecords - 1)} \cup {RInt(1, 0)}

\* The indexes the calls that take more arguments are tried with in full.
InnerIndexes == {RInt(0, i) : i \in 0..(MaxRecords - 1)}

Running == result.st # "crash"

\* The record of a call: its name, arguments and outcome, and the state of the
\* FILE handle it opened ("none" when it opened no file).
Result(op, args, o) ==
    [op |-> op, args |-> args, st |-> o.st,
     err |-> IF o.st = "raise" THEN o.err ELSE "",
     ret |-> IF o.st = "ok" THEN o.v ELSE Qnil,
     handle |-> IF "handle" \in DOMAIN o THEN o.handle ELSE "none"]

\* A call's effect on the table, with its outcome.
Effect(h, r, sb, o) == [header |-> h, records |-> r, string_block |-> sb, o |-> o]

Apply(op, args, e) ==
    /\ header' = e.header
    /\ records' = e.records
    /\ string_block' = e.string_block
    /\ result' = Result(op, args, e.o)
    /\ UNCHANGED field_definitions

\* dbc_alloc, then dbc_initialize: the zeroed struct with the caller's schema.
Init ==
    /\ field_definitions \in Schemas
    /\ header = Header(<<0, 0, 0, 0>>, 0, 0, 0, 0)
    /\ records = NullRecords
    /\ string_block = NullBlock
    /\ result = Result("initialize", [k |-> "none"], Ok(Qnil))

(***************************************************************************)
(* read                                                                    *)
(***************************************************************************)
\* fread(&dbc->header, sizeof(DBCHeader), 1, file) on a file with fewer than
\* five header words: the words the file has are copied over the struct.
HeaderPrefix(h, w) ==
    Header(IF Len(w) >= 1 THEN w[1] ELSE h.magic,
           IF Len(w) >= 2 THEN w[2] ELSE h.record_count,
           IF Len(w) >= 3 THEN w[3] ELSE h.field_count,
           IF Len(w) >= 4 THEN w[4] ELSE h.record_size,
           IF Len(w) >= 5 THEN w[5] ELSE h.string_block_size)

\* The inner loop of dbc_read over the fields of record i: the tag comes from
\* the schema entry at position j, the union from the next four bytes.
RECURSIVE ReadFields(_, _, _, _, _, _)
ReadFields(file, defs, fc, i, j, rec) ==
    IF j >= fc THEN [st |-> "ok", err |-> "", rec |-> rec, handle |-> "open"]
    ELSE LET field_name == rb_ary_entry(HashKeys(defs), j)
             type == ruby_to_field_type(rb_hash_aref(defs, field_name))
             n == i * fc + j
         IN  IF type.st # "ok"
             \* ruby_to_field_type raises from inside the loop: no fclose
             THEN [st |-> "raise", err |-> type.err, rec |-> rec, handle |-> "open"]
             ELSE IF n >= Len(file.cells)
             THEN [st |-> "raise", err |-> "IOError: Failed to read DBC record field",
                   rec |-> [rec EXCEPT ![j + 1].type = type.v], handle |-> "closed"]
             ELSE ReadFields(file, defs, fc, i, j + 1,
                             [rec EXCEPT ![j + 1] = FV(type.v, file.cells[n + 1])])

\* The outer loop of dbc_read over the records.
RECURSIVE ReadRecords(_, _, _, _, _, _)
ReadRecords(file, defs, rc, fc, i, slot) ==
    IF i >= rc THEN [st |-> "ok", err |-> "", slot |-> slot, handle |-> "open"]
    ELSE LET r == ReadFields(file, defs, fc, i, 0, [j \in 1..fc |-> IndetFV])
             filled == [slot EXCEPT ![i + 1] = LiveSlot(r.rec)]
         IN  IF r.st = "ok" THEN ReadRecords(file, defs, rc, fc, i + 1, filled)
             ELSE [st |-> "raise", err |-> r.err, slot |-> filled, handle |-> r.handle]

\* Whether the loop that frees the old records, which runs to the record_count
\* just read, frees an element outside the old array or one that holds no
\* buffer of this table.
FreesBadPointer(recs, rc) ==
    /\ ~recs.null
    /\ \E i \in 1..rc : i > Len(recs.slot) \/ recs.slot[i].st # "live"

\* fread(dbc->string_block, 1, size, file): the bytes the file has, then what
\* ALLOC_N left.
ReadBlock(file, size) ==
    [null |-> FALSE,
     bytes |-> [p \in 1..size |-> IF p <= Len(file.str) THEN file.str[p] ELSE INDET]]

\* dbc_read on the file at @filepath.
ReadEffects(file) ==
    IF ~file.exists
    THEN {Effect(header, records, string_block, Raise("IOError: Could not open file"))}
    ELSE IF Len(file.hdr) < 5
    THEN {Effect(HeaderPrefix(header, file.hdr), records, string_block,
                 Leaving(Raise("IOError: Failed to read DBC header"), "closed"))}
    ELSE LET h == HeaderPrefix(header, file.hdr)
             rr == ReadRecords(file, field_definitions, h.record_count, h.field_count, 0,
                               [i \in 1..h.record_count |-> IndetSlot])
             recs == [null |-> FALSE, slot |-> rr.slot]
             done ==
                IF rr.st # "ok"
                THEN Effect(h, recs, string_block, Leaving(Raise(rr.err), rr.handle))
                ELSE IF Len(file.str) < h.string_block_size
                THEN Effect(h, recs, ReadBlock(file, h.string_block_size),
                            Leaving(Raise("IOError: Failed to read DBC string block"),
                                    "closed"))
                ELSE Effect(h, recs, ReadBlock(file, h.string_block_size),
                            Leaving(Ok(Qnil), "closed"))
         IN  {done} \cup (IF FreesBadPointer(records, h.record_count)
                          THEN {Effect(h, records, string_block, Crash)} ELSE {})

\* The files a read may find at @filepath: one of Files, or the file the last
\* write put there.
FilesAtPath ==
    Files

dbc_read(file) ==
    /\ Running
    /\ \E e \in ReadEffects(file) : Apply("read", [file |-> file], e)

(***************************************************************************)
(* write, write_to                                                         *)
(***************************************************************************)
\* The record loop, mutated: the two loops are nested the other way round.
WrittenCells_by_column(g) ==
    LET rc == header.record_count
        fc == header.field_count
        Cell(n) ==
            LET i == n % rc
                j == n \div rc
                live == ~records.null /\ i < Len(records.slot)
                        /\ records.slot[i + 1].st = "live"
                fv == IF live THEN FieldAt(records.slot[i + 1].rec, j) ELSE IndetFV
            IN  IF fv.vset THEN fv.value ELSE g
    IN  [n \in 1..(rc * fc) |-> Cell(n - 1)]

\* The cells the record loop of dbc_write emits, an indeterminate cell read as g.
WrittenCells(g) ==
    LET rc == header.record_count
        fc == header.field_count
        Cell(n) ==
            LET i == n \div fc
                j == n % fc
                live == ~records.null /\ i < Len(records.slot)
                        /\ records.slot[i + 1].st = "live"
                fv == IF live THEN FieldAt(records.slot[i + 1].rec, j) ELSE IndetFV
            IN  IF fv.vset THEN fv.value ELSE g
    IN  [n \in 1..(rc * fc) |-> Cell(n - 1)]

\* The bytes fwrite(dbc->string_block, 1, string_block_size, file) emits.
WrittenBlock(g) ==
    [p \in 1..header.string_block_size |->
        IF p <= Len(string_block.bytes) /\ string_block.bytes[p] # INDET
        THEN string_block.bytes[p] ELSE IF g = 0 THEN 0 ELSE 63]

\* Whether the record loop follows a pointer that is no live record.
WriteFollowsBadPointer ==
    /\ header.field_count > 0
    /\ \E i \in 1..header.record_count :
          records.null \/ i > Len(records.slot) \/ records.slot[i].st # "live"

\* Whether the loops read an indeterminate cell or byte.
WriteReadsIndeterminate ==
    \/ WriteFollowsBadPointer
    \/ \E i \in 1..header.record_count :
          \E j \in 0..(header.field_count - 1) :
              /\ ~records.null /\ i <= Len(records.slot) /\ records.slot[i].st = "live"
              /\ ~FieldAt(records.slot[i].rec, j).vset
    \/ \E p \in 1..header.string_block_size :
          p > Len(string_block.bytes) \/ string_block.bytes[p] = INDET

\* The header as the five words fwrite(&dbc->header, ...) emits.
HeaderWords(h) ==
    <<h.magic, h.record_count, h.field_count, h.record_size, h.string_block_size>>

\* The body shared by dbc_write and dbc_write_to: the outcomes and the file
\* left behind, when the operating system fails the call named by fail
\* ("none", "open", "header", "record", "string").
WriteOutcomes(fail, record_message) ==
    CASE fail = "open" ->
            {[o |-> Raise("IOError: Could not open file for writing"), out |-> NoFile]}
      [] fail = "header" ->
            {[o |-> Leaving(Raise("IOError: Failed to write DBC header"), "closed"),
              out |-> File(<< >>, << >>, << >>)]}
      [] fail = "record" ->
            {[o |-> Leaving(Raise(record_message), "closed"),
              out |-> File(HeaderWords(header), << >>, << >>)]}
            \cup (IF WriteFollowsBadPointer THEN {[o |-> Crash, out |-> NoFile]} ELSE {})
      [] fail = "string" ->
            {[o |-> Leaving(Raise("IOError: Failed to write DBC string block"), "closed"),
              out |-> File(HeaderWords(header), WrittenCells(g), << >>)] :
             g \in IF WriteReadsIndeterminate THEN GarbageCells ELSE {0}}
            \cup (IF WriteFollowsBadPointer THEN {[o |-> Crash, out |-> NoFile]} ELSE {})
      [] fail = "none" ->
            {[o |-> Leaving(Ok(Qnil), "closed"),
              out |-> File(HeaderWords(header), WrittenCells(g), WrittenBlock(g))] :
             g \in IF WriteReadsIndeterminate THEN GarbageCells ELSE {0}}
            \cup (IF WriteFollowsBadPointer
                     \/ (string_block.null /\ header.string_block_size > 0)
                  THEN {[o |-> Crash, out |-> NoFile]} ELSE {})

\* The failures the operating system can inject into this write.
WriteFailures ==
    {"none", "open", "header"}
    \cup (IF header.record_count * header.field_count > 0 THEN {"record"} ELSE {})
    \cup (IF header.string_block_size > 0 THEN {"string"} ELSE {})

dbc_write(fail) ==
    /\ Running
    /\ \E w \in WriteOutcomes(fail, "IOError: Failed to write DBC record field") :
          result' = Result("write", [fail |-> fail, out |-> w.out], w.o)
    /\ UNCHANGED <<field_definitions, header, records, string_block>>

\* dbc_write_to(new_filepath): Check_Type rejects a path that is no String.
dbc_write_to(new_filepath, fail) ==
    /\ Running
    /\ IF new_filepath.k # "String"
       THEN result' = Result("write_to", [fail |-> fail, out |-> NoFile], Raise("TypeError"))
       ELSE \E w \in WriteOutcomes(fail, "IOError: Failed to write DBC record") :
               result' = Result("write_to", [fail |-> fail, out |-> w.out], w.o)
    /\ UNCHANGED <<field_definitions, header, records, string_block>>

(***************************************************************************)
(* create_record, create_record_with_values                                *)
(***************************************************************************)
\* dbc_create_record, mutated: it returns the new count, not the new index.
CreateRecordEffects_returns_count ==
    LET new_count == header.record_count + 1
        grown == ReallocSlots(records, new_count)
        rec == [j \in 1..header.field_count |-> FV(0, 0)]
    IN  {Effect([header EXCEPT !.record_count = new_count],
                [grown EXCEPT !.slot[new_count] = LiveSlot(rec)],
                string_block, Ok(RInt(0, new_count)))}

\* dbc_create_record: the new record is zeroed whole, tags included.
CreateRecordEffects ==
    LET new_count == header.record_count + 1
        grown == ReallocSlots(records, new_count)
        rec == [j \in 1..header.field_count |-> FV(0, 0)]
    IN  {Effect([header EXCEPT !.record_count = new_count],
                [grown EXCEPT !.slot[new_count] = LiveSlot(rec)],
                string_block, Ok(RInt(0, new_count - 1)))}

dbc_create_record ==
    /\ Running
    /\ header.record_count < MaxRecords
    /\ \E e \in CreateRecordEffects : Apply("create_record", [k |-> "none"], e)

\* The loop of dbc_create_record_with_values over the schema's fields.
RECURSIVE FillFields(_, _, _, _, _)
FillFields(values, defs, fc, i, rec) ==
    IF i >= fc THEN [st |-> "ok", err |-> "", rec |-> rec]
    ELSE LET field_name == rb_ary_entry(HashKeys(defs), i)
             value == rb_hash_aref(values, field_name)
             type == ruby_to_field_type(rb_hash_aref(defs, field_name))
             conv == ruby_to_field_value(value, type.v, rec[i + 1])
         IN  IF value = Qnil
             THEN [st |-> "raise", err |-> "ArgumentError: Missing value for field", rec |-> rec]
             ELSE IF type.st # "ok"
             THEN [st |-> "raise", err |-> type.err, rec |-> rec]
             ELSE IF conv.st # "ok"
             THEN [st |-> "raise", err |-> conv.err, rec |-> [rec EXCEPT ![i + 1] = conv.fv]]
             ELSE FillFields(values, defs, fc, i + 1, [rec EXCEPT ![i + 1] = conv.fv])

\* dbc_create_record_with_values, mutated: record_count is written together
\* with the new buffer, before the loop that may raise.
CreateWithValuesEffects_count_first(values) ==
    IF values.k # "Hash"
    THEN {Effect(header, records, string_block, Raise("ArgumentError: Values must be a hash"))}
    ELSE LET new_count == header.record_count + 1
             grown == ReallocSlots(records, new_count)
             r == FillFields(values.pairs, field_definitions, header.field_count, 0,
                             [j \in 1..header.field_count |-> IndetFV])
         IN  IF r.st = "ok"
             THEN {Effect([header EXCEPT !.record_count = new_count],
                          [grown EXCEPT !.slot[new_count] = LiveSlot(r.rec)],
                          string_block, Ok(RInt(0, new_count - 1)))}
             ELSE {Effect([header EXCEPT !.record_count = new_count],
                          [grown EXCEPT !.slot[new_count] = OrphanSlot],
                          string_block, Raise(r.err))}

\* dbc_create_record_with_values(values): the array grows and the new buffer is
\* stored in it before the loop; record_count is written after the loop.
CreateWithValuesEffects(values) ==
    IF values.k # "Hash"
    THEN {Effect(header, records, string_block, Raise("ArgumentError: Values must be a hash"))}
    ELSE LET new_count == header.record_count + 1
             grown == ReallocSlots(records, new_count)
             r == FillFields(values.pairs, field_definitions, header.field_count, 0,
                             [j \in 1..header.field_count |-> IndetFV])
         IN  IF r.st = "ok"
             THEN {Effect([header EXCEPT !.record_count = new_count],
                          [grown EXCEPT !.slot[new_count] = LiveSlot(r.rec)],
                          string_block, Ok(RInt(0, new_count - 1)))}
             ELSE {Effect(header, [grown EXCEPT !.slot[new_count] = OrphanSlot],
                          string_block, Raise(r.err))}

\* The hashes passed to create_record_with_values: every field given; the last
\* field missing; an extra key; a value that does not convert; no hash at all.
ValueHashes ==
    LET n == Len(field_definitions)
        names == HashKeys(field_definitions)
        all == [i \in 1..n |-> <<names[i], RInt(0, 0 - 1)>>]
    IN  {RHash(all),
         RHash(SubSeq(all, 1, n - 1)),
         RHash(Append(all, <<RSym("nope"), RInt(0, 1)>>)),
         RHash([all EXCEPT ![n] = <<names[n], RStr(<<97>>)>>]),
         Qnil}

dbc_create_record_with_values(values) ==
    /\ Running
    /\ header.record_count < MaxRecords
    /\ \E e \in CreateWithValuesEffects(values) :
          Apply("create_record_with_values", [values |-> values], e)

(***************************************************************************)
(* update_record, update_record_multi                                      *)
(***************************************************************************)
\* The table with field field_idx of record idx replaced.
WithField(recs, idx, field_idx, fv) ==
    [recs EXCEPT !.slot[idx.s + 1].rec[field_idx + 1] = fv]

\* Whether &dbc->records[idx][field_idx] is a field of a live record.
FieldInPlace(recs, idx, field_idx) ==
    /\ InArray(recs, idx)
    /\ recs.slot[idx.s + 1].st = "live"
    /\ field_idx < Len(recs.slot[idx.s + 1].rec)

\* dbc_update_record(index, field_name, value).
UpdateRecordEffects(index, field_name, value) ==
    LET idx == index
        field_idx == FieldIndex(HashKeys(field_definitions), field_name)
        type == ruby_to_field_type(rb_hash_aref(field_definitions, field_name))
    IN  IF LongNegative(idx) \/ U32AtLeast(idx, header.record_count)
           \/ field_idx < 0 \/ field_idx >= header.field_count
        THEN {Effect(header, records, string_block,
                     Raise("ArgumentError: Invalid record or field index"))}
        ELSE IF type.st # "ok"
        THEN {Effect(header, records, string_block, Raise(type.err))}
        ELSE IF FieldInPlace(records, idx, field_idx)
        THEN LET conv == ruby_to_field_value(value, type.v,
                                             records.slot[idx.s + 1].rec[field_idx + 1])
             IN  {Effect(header, WithField(records, idx, field_idx, conv.fv), string_block,
                         IF conv.st = "ok" THEN Ok(Qnil) ELSE Raise(conv.err))}
        \* a write through a pointer that is no live record: a crash, or a
        \* write to memory that is no part of this table
        ELSE LET conv == ruby_to_field_value(value, type.v, IndetFV)
             IN  {Effect(header, records, string_block, Crash),
                  Effect(header, records, string_block,
                         IF conv.st = "ok" THEN Ok(Qnil) ELSE Raise(conv.err))}

\* What update_record is asked to store, and where: -1 in either field, 2.1 and
\* "a" in the last field, -1 in a field the schema does not have.
UpdateRequests ==
    LET names == HashKeys(field_definitions)
        last == names[Len(names)]
    IN  {<<names[1], RInt(0, 0 - 1)>>, <<last, RInt(0, 0 - 1)>>,
         <<last, RFloat(1074161254, 214748365)>>, <<last, RStr(<<97>>)>>,
         <<RSym("nope"), RInt(0, 0 - 1)>>}

dbc_update_record(index, field_name, value) ==
    /\ Running
    /\ \E e \in UpdateRecordEffects(index, field_name, value) :
          Apply("update_record", [index |-> index, field |-> field_name, value |-> value], e)

\* The loop of dbc_update_record_multi over the keys of updates, in order: each
\* key is looked up, converted and stored before the next one is looked at.
\* wrote tells whether the loop stored through the record pointer.
RECURSIVE MultiLoop(_, _, _, _, _, _)
MultiLoop(pairs, defs, fc, i, rec, wrote) ==
    IF i >= Len(pairs) THEN [st |-> "ok", err |-> "", rec |-> rec, wrote |-> wrote]
    ELSE LET key == pairs[i + 1][1]
             value == pairs[i + 1][2]
             field_idx == FieldIndex(HashKeys(defs), key)
             type == ruby_to_field_type(rb_hash_aref(defs, key))
             conv == ruby_to_field_value(value, type.v, FieldAt(rec, field_idx))
             stored == IF field_idx < Len(rec) THEN [rec EXCEPT ![field_idx + 1] = conv.fv]
                       ELSE rec
         IN  IF ~(field_idx >= 0 /\ field_idx < fc)
             THEN [st |-> "raise", err |-> "ArgumentError: Invalid field name",
                   rec |-> rec, wrote |-> wrote]
             ELSE IF type.st # "ok"
             THEN [st |-> "raise", err |-> type.err, rec |-> rec, wrote |-> wrote]
             ELSE IF conv.st # "ok"
             THEN [st |-> "raise", err |-> conv.err, rec |-> stored, wrote |-> TRUE]
             ELSE MultiLoop(pairs, defs, fc, i + 1, stored, TRUE)

\* dbc_update_record_multi(index, updates).
UpdateMultiEffects(index, updates) ==
    LET idx == index
    IN  IF LongNegative(idx) \/ U32AtLeast(idx, header.record_count)
        THEN {Effect(header, records, string_block, Raise("ArgumentError: Invalid record index"))}
        ELSE IF updates.k # "Hash"
        THEN {Effect(header, records, string_block,
                     Raise("ArgumentError: Updates must be a hash"))}
        ELSE LET live == InArray(records, idx) /\ records.slot[idx.s + 1].st = "live"
                 rec == IF live THEN records.slot[idx.s + 1].rec
                        ELSE [j \in 1..header.field_count |-> IndetFV]
                 m == MultiLoop(updates.pairs, field_definitions, header.field_count, 0,
                                rec, FALSE)
                 o == IF m.st = "ok" THEN Ok(Qnil) ELSE Raise(m.err)
             IN  IF live
                 THEN {Effect(header, [records EXCEPT !.slot[idx.s + 1].rec = m.rec],
                              string_block, o)}
                 ELSE IF m.wrote
                 THEN {Effect(header, records, string_block, Crash),
                       Effect(header, records, string_block, o)}
                 ELSE {Effect(header, records, string_block, o)}

\* The hashes passed to update_record_multi: every field set; a good key then a
\* key that is no field; a good key then a value that does not convert; no
\* hash at all.
EveryField ==
    LET names == HashKeys(field_definitions)
    IN  [i \in 1..Len(names) |-> <<names[i], RInt(0, 0 - 1)>>]

UpdateHashes ==
    LET n == Len(field_definitions)
        names == HashKeys(field_definitions)
        all == EveryField
    IN  {RHash(all),
         RHash(<<all[1], <<RSym("nope"), RInt(0, 1)>> >>),
         RHash(<<all[1], <<names[n], RStr(<<97>>)>> >>),
         Qnil}

dbc_update_record_multi(index, updates) ==
    /\ Running
    /\ \E e \in UpdateMultiEffects(index, updates) :
          Apply("update_record_multi", [index |-> index, updates |-> updates], e)

(***************************************************************************)
(* get_record, header, find_by                                             *)
(***************************************************************************)
\* dbc_get_record(index): the outcomes of the call.
GetRecordOutcomes(index) ==
    LET idx == index
    IN  IF LongNegative(idx) \/ U32AtLeast(idx, header.record_count)
        THEN {Raise("ArgumentError: Invalid record index")}
        \* with no field to read the loop never follows records[idx]
        ELSE IF header.field_count = 0 THEN {Ok(RHash(<< >>))}
        ELSE UNION {IF r.st = "ok"
                    THEN BuildHash(r.v, HashKeys(field_definitions), header.field_count,
                                   string_block, 0, << >>)
                    ELSE {r} : r \in FetchRecord(records, header.field_count, idx)}

dbc_get_record(index) ==
    /\ Running
    /\ \E o \in GetRecordOutcomes(index) :
          result' = Result("get_record", [index |-> index], o)
    /\ UNCHANGED <<field_definitions, header, records, string_block>>

\* dbc_get_header: the stored struct, field by field.
HeaderHash ==
    RHash(<< <<RSym("magic"), RStr(header.magic)>>,
             <<RSym("record_count"), UINT2NUM(header.record_count)>>,
             <<RSym("field_count"), UINT2NUM(header.field_count)>>,
             <<RSym("record_size"), UINT2NUM(header.record_size)>>,
             <<RSym("string_block_size"), UINT2NUM(header.string_block_size)>> >>)

dbc_get_header ==
    /\ Running
    /\ result' = Result("header", [k |-> "none"], Ok(HeaderHash))
    /\ UNCHANGED <<field_definitions, header, records, string_block>>

\* The scan of dbc_find_by over the records from i on, acc the matches so far.
\* An unspecified value may or may not be eql? to the value asked for.
RECURSIVE FindLoop(_, _, _, _)
FindLoop(field_idx, value, i, acc) ==
    IF i >= header.record_count THEN {Ok(acc)}
    ELSE UNION {
        IF r.st # "ok" THEN {r}
        ELSE UNION {
            IF fv.st # "ok" THEN {fv}
            ELSE (IF rb_eql(fv.v, value) \/ fv.v = RGarbage
                  THEN UNION {IF h.st = "ok"
                              THEN FindLoop(field_idx, value, i + 1, Append(acc, h.v))
                              ELSE {h} :
                              h \in BuildHash(r.v, HashKeys(field_definitions),
                                              header.field_count, string_block, 0, << >>)}
                  ELSE {})
                 \cup (IF ~rb_eql(fv.v, value) \/ fv.v = RGarbage
                       THEN FindLoop(field_idx, value, i + 1, acc) ELSE {}) :
            fv \in field_value_to_ruby(FieldAt(r.v, field_idx), string_block)} :
        r \in FetchRecord(records, header.field_count, RInt(0, i))}

\* dbc_find_by(field, value): the outcomes of the call.
FindByOutcomes(field, value) ==
    LET field_idx == FieldIndex(HashKeys(field_definitions), field)
    IN  IF field_idx < 0 \/ field_idx >= header.field_count
        THEN {Raise("ArgumentError: Invalid field name")}
        ELSE FindLoop(field_idx, value, 0, << >>)

\* What find_by is asked for: the first field equal to 4294967295 or 0, the last equal
\* to 0 or "a", a field the schema does not have.
FindQueries ==
    LET names == HashKeys(field_definitions)
    IN  {<<names[1], RInt(1, 0 - 1)>>, <<names[1], RInt(0, 0)>>,
         <<names[Len(names)], RInt(0, 0)>>, <<names[Len(names)], RStr(<<97>>)>>,
         <<RSym("nope"), RInt(0, 0)>>}

dbc_find_by(field, value) ==
    /\ Running
    /\ \E o \in FindByOutcomes(field, value) :
          result' = Result("find_by", [field |-> field, value |-> value], o)
    /\ UNCHANGED <<field_definitions, header, records, string_block>>

(***************************************************************************)
(* delete_record                                                           *)
(***************************************************************************)
\* The delete, mutated: nothing is moved down, the last counted element is dropped.
DeletedSlots_drops_last(recs, idx, rc) ==
    [i \in 1..Len(recs.slot) |->
        IF i = rc /\ recs.slot[i].st = "live" THEN StaleSlot ELSE recs.slot[i]]

\* free(records[idx]), then memmove of the record_count - idx - 1 pointers after
\* it one element down, then record_count--.  The array keeps its length: its
\* last counted element keeps the pointer it had.
DeletedSlots(recs, idx, rc) ==
    [i \in 1..Len(recs.slot) |->
        IF i >= idx.s + 1 /\ i < rc
        THEN (IF i + 1 <= Len(recs.slot) THEN recs.slot[i + 1] ELSE IndetSlot)
        ELSE IF i = rc /\ recs.slot[i].st = "live" THEN StaleSlot
        ELSE recs.slot[i]]

\* dbc_delete_record, mutated: the delete also drops the last byte of the
\* string block and lowers string_block_size with it.
DeleteEffects_trims_strings(index) ==
    LET idx == index
        rc == header.record_count
        h == [header EXCEPT !.record_count = rc - 1,
                            !.string_block_size = IF @ > 0 THEN @ - 1 ELSE 0]
        sb == [string_block EXCEPT !.bytes = SubSeq(@, 1, Len(@) - 1)]
    IN  IF LongNegative(idx) \/ U32AtLeast(idx, rc)
        THEN {Effect(header, records, string_block, Raise("ArgumentError: Invalid record index"))}
        \* idx >= 2^32: free of a pointer read far outside the array, then a
        \* memmove whose negative length converts to a huge size_t
        ELSE IF idx.w # 0 \/ records.null
        THEN {Effect(header, records, string_block, Crash)}
        ELSE LET moved == [records EXCEPT !.slot = DeletedSlots(records, idx, rc)]
             IN  IF InArray(records, idx) /\ records.slot[idx.s + 1].st = "live"
                 THEN {Effect(h, moved, sb, Ok(Qnil))}
                 \* free of a pointer that is no live record of this table
                 ELSE {Effect(header, records, string_block, Crash),
                       Effect(h, moved, sb, Ok(Qnil))}

\* dbc_delete_record(index).
DeleteEffects(index) ==
    LET idx == index
        rc == header.record_count
        h == [header EXCEPT !.record_count = rc - 1]
    IN  IF LongNegative(idx) \/ U32AtLeast(idx, rc)
        THEN {Effect(header, records, string_block, Raise("ArgumentError: Invalid record index"))}
        \* idx >= 2^32: free of a pointer read far outside the array, then a
        \* memmove whose negative length converts to a huge size_t
        ELSE IF idx.w # 0 \/ records.null
        THEN {Effect(header, records, string_block, Crash)}
        ELSE LET moved == [records EXCEPT !.slot = DeletedSlots(records, idx, rc)]
             IN  IF InArray(records, idx) /\ records.slot[idx.s + 1].st = "live"
                 THEN {Effect(h, moved, string_block, Ok(Qnil))}
                 \* free of a pointer that is no live record of this table
                 ELSE {Effect(header, records, string_block, Crash),
                       Effect(h, moved, string_block, Ok(Qnil))}

dbc_delete_record(index) ==
    /\ Running
    /\ \E e \in DeleteEffects(index) : Apply("delete_record", [index |-> index], e)

(***************************************************************************)
(* The methods a caller may invoke, in any order                           *)
(***************************************************************************)
Next ==
    \/ \E f \in FilesAtPath : dbc_read(f)
    \/ \E fail \in WriteFailures : dbc_write(fail)
    \/ \E path \in {RStr(<<111>>), Qnil} : \E fail \in {"none", "open"} :
          /\ path # Qnil \/ fail = "none"
          /\ dbc_write_to(path, fail)
    \/ dbc_create_record
    \/ \E values \in ValueHashes : dbc_create_record_with_values(values)
    \/ \E index \in Indexes : \E q \in UpdateRequests :
          /\ index \in InnerIndexes \/ q[1] = field_definitions[1][1]
          /\ dbc_update_record(index, q[1], q[2])
    \/ \E index \in Indexes : \E u \in UpdateHashes :
          /\ index \in InnerIndexes \/ u = RHash(EveryField)
          /\ dbc_update_record_multi(index, u)
    \/ \E index \in Indexes : dbc_delete_record(index)
    \/ \E index \in Indexes : dbc_get_record(index)
    \/ dbc_get_header
    \/ \E q \in FindQueries : dbc_find_by(q[1], q[2])

Spec == Init /\ [][Next]_vars

(***************************************************************************)
(* Saving and loading back: the calls that return, a write to @filepath    *)
(* and a read of the file that write left there                            *)
(***************************************************************************)
\* The files found at @filepath before the table has written there.
FilesToLoad == {FileGood, FileBadOffset, FileOneField}

NextSaveLoad ==
    \/ \E f \in FilesToLoad : dbc_read(f) /\ result'.st = "ok"
    \/ dbc_write("none") /\ result'.st = "ok"
    \/ /\ result.op = "write" /\ result.st = "ok"
       /\ dbc_read(result.args.out)
    \/ dbc_create_record /\ result'.st = "ok"
    \/ \E values \in ValueHashes :
          dbc_create_record_with_values(values) /\ result'.st = "ok"
    \/ \E index \in InnerIndexes : \E q \in UpdateRequests :
          dbc_update_record(index, q[1], q[2]) /\ result'.st = "ok"
    \/ \E index \in InnerIndexes : \E u \in UpdateHashes :
          dbc_update_record_multi(index, u) /\ result'.st = "ok"
    \/ \E index \in InnerIndexes : dbc_delete_record(index) /\ result'.st = "ok"

SpecSaveLoad == Init /\ [][NextSaveLoad]_vars

(***************************************************************************)
(* Release of the record buffers                                           *)
(***************************************************************************)
\* dbc_free: the elements of the records array whose pointer the loop frees
\* when the object is collected, the first record_count of them.
dbc_free == IF records.null THEN {} ELSE 1..header.record_count

\* The elements of the old array that the loop of dbc_read frees before the
\* array itself: the first rc of them, rc the record_count just read.
ReadReleases(recs, rc) == IF recs.null THEN {} ELSE 1..rc

(***************************************************************************)
(* Properties                                                              *)
(***************************************************************************)
\* The calls that change records.
Mutations ==
    {"create_record", "create_record_with_values", "update_record",
     "update_record_multi", "delete_record"}

\* The records the table holds: the record buffers its array points to.
HeldRecords ==
    IF records.null THEN {}
    ELSE {i \in 1..Len(records.slot) : records.slot[i].st = "live"}

\* header() reports as record_count the number of records held, and they are
\* the first elements of the array.
CountIsHeld ==
    /\ rb_hash_aref(HeaderHash.pairs, RSym("record_count")) = RInt(0, Cardinality(HeldRecords))
    /\ HeldRecords = 1..Cardinality(HeldRecords)

\* C1: record_count, as header() reports it, equals the number of records
\* held: on a freshly constructed table, after a successful read, and after
\* every create_record, create_record_with_values, update_record,
\* update_record_multi and delete_record call that returns or raises on a table
\* where it held.
C1_RecordCountIsHeld ==
    /\ (result.op = "initialize" => CountIsHeld)
    /\ [][/\ (result'.op = "read" /\ result'.st = "ok" => CountIsHeld')
           /\ (CountIsHeld /\ result'.op \in Mutations /\ result'.st # "crash"
                  => CountIsHeld')]_vars

\* C1 witness: a create_record_with_values that raised after storing its
\* buffer, on a table that still reports the records it holds.
C1_Witness ==
    /\ result.op = "create_record_with_values"
    /\ result.st = "raise"
    /\ ~records.null
    /\ Len(records.slot) > header.record_count
    /\ header.record_count > 0
    /\ CountIsHeld

\* C2: a read that raises leaves the header, every record and the string
\* block as they were before the call.
C2_FailedLoadLeavesTable ==
    [][result'.op = "read" /\ result'.st = "raise"
         => UNCHANGED <<header, records, string_block>>]_vars

\* Whether index names one of the record_count records, held in the array.
ValidIndex(index) ==
    /\ index.w = 0 /\ index.s >= 0 /\ index.s < header.record_count
    /\ InArray(records, index)
    /\ records.slot[index.s + 1].st = "live"

\* The type the schema declares for a field name.
DeclaredType(field_name) == ruby_to_field_type(rb_hash_aref(field_definitions, field_name)).v

\* A table as a successful read of a well-formed file under a valid schema of
\* field_count fields shapes it, whatever its cells hold: record_count counts
\* the records held, each has field_count fields that were written, and the
\* string block has its string_block_size bytes.
ShapeOk ==
    /\ CountIsHeld
    /\ \A j \in 1..Len(field_definitions) :
          ruby_to_field_type(field_definitions[j][2]).st = "ok"
    /\ header.field_count = Len(field_definitions)
    /\ ~string_block.null
    /\ Len(string_block.bytes) = header.string_block_size
    /\ \A p \in 1..Len(string_block.bytes) : string_block.bytes[p] # INDET
    /\ \A i \in HeldRecords :
          /\ Len(records.slot[i].rec) = header.field_count
          /\ \A j \in 1..header.field_count : records.slot[i].rec[j].vset

\* Field j of record i (both 1-based) as its declared type reads it.
AsDeclared(i, j) ==
    field_value_to_ruby([records.slot[i].rec[j] EXCEPT
                            !.type = DeclaredType(field_definitions[j][1])],
                        string_block)

\* Whether that reading is a value of the table: a number, or the text of a
\* string that lies inside the string block.
Resolves(i, j) == \A o \in AsDeclared(i, j) : o.st = "ok" /\ o.v # RGarbage

\* Whether field j of record i carries the tag of its declared type.
TagDeclared(i, j) ==
    records.slot[i].rec[j].type = DeclaredType(field_definitions[j][1])

\* Whether, after the step, the field named key of record index holds value
\* converted to the field's declared type.
Applied(index, key, value) ==
    LET field_idx == FieldIndex(HashKeys(field_definitions), key)
        old == records.slot[index.s + 1].rec
        new == records'.slot[index.s + 1].rec
    IN  /\ field_idx >= 0 /\ field_idx < Len(old)
        /\ new[field_idx + 1] =
              ruby_to_field_value(value, DeclaredType(key), old[field_idx + 1]).fv

\* C3: on a table shaped as a read shapes it, an update_record_multi that raises has changed no field of the record;
\* one that returns has applied every field its hash names.
C3_UpdateMultiAllOrNothing ==
    [][result'.op = "update_record_multi" /\ ShapeOk /\ ValidIndex(result'.args.index)
         => /\ result'.st = "raise" => records' = records
            /\ result'.st = "ok" =>
                  \A i \in 1..Len(result'.args.updates.pairs) :
                     Applied(result'.args.index, result'.args.updates.pairs[i][1],
                             result'.args.updates.pairs[i][2])]_vars

\* The values get_record may return for a field of the declared type that
\* holds value: what the converted value resolves to inside the table.
Resolved(value, type) ==
    {o.v : o \in {r \in field_value_to_ruby(ruby_to_field_value(value, type, IndetFV).fv,
                                            string_block) :
                     r.st = "ok" /\ r.v # RGarbage}}

\* C4: on a table shaped as a read shapes it, an update_record that returns
\* changes no other field of the record, and the get_record of that index that
\* follows it (the record's other fields being readable) returns the value,
\* converted to the field's declared type, for the field.
C4_UpdateThenGet ==
    [][/\ (result'.op = "update_record" /\ result'.st = "ok"
             /\ ShapeOk /\ ValidIndex(result'.args.index)
           => LET field_idx == FieldIndex(HashKeys(field_definitions), result'.args.field)
                  old == records.slot[result'.args.index.s + 1].rec
                  new == records'.slot[result'.args.index.s + 1].rec
              IN  \A j \in 1..Len(old) : j # field_idx + 1 => new[j] = old[j])
       /\ (result.op = "update_record" /\ result.st = "ok"
             /\ ShapeOk /\ ValidIndex(result.args.index)
             /\ (\A j \in 1..header.field_count :
                    /\ TagDeclared(result.args.index.s + 1, j)
                    /\ field_definitions[j][1] # result.args.field
                          => Resolves(result.args.index.s + 1, j))
             /\ result'.op = "get_record" /\ result'.args.index = result.args.index
           => /\ result'.st = "ok"
              /\ rb_hash_aref(result'.ret.pairs, result.args.field)
                    \in Resolved(result.args.value, DeclaredType(result.args.field)))]_vars

C6_CreateAppends ==
    [][result'.op \in {"create_record", "create_record_with_values"} /\ result'.st = "ok"
         => LET rc == header.record_count
            IN  /\ header' = [header EXCEPT !.record_count = rc + 1]
                /\ result'.ret = RInt(0, rc)
                /\ string_block' = string_block
                /\ \A k \in 1..rc : records'.slot[k] = records.slot[k]
                /\ records'.slot[rc + 1].st = "live"]_vars

\* C6 witness: create_record_with_values returned index 1 on a table that held
\* one record read from a file, which is still the first.
C6_Witness ==
    /\ result.op = "create_record_with_values" /\ result.st = "ok"
    /\ result.ret = RInt(0, 1)
    /\ header.record_count = 2
    /\ records.slot[1] = LiveSlot(<<FV(TYPE_UINT32, 0 - 1), FV(TYPE_STRING, 0 - 1)>>)
    /\ records.slot[2].st = "live"

\* The calls that take a record index.
Positional == {"get_record", "update_record", "update_record_multi", "delete_record"}

\* Whether the Integer index is negative or at least record_count.
IndexOutside(index) ==
    LongNegative(index) \/ index.w > 0 \/ index.s >= header.record_count

\* C7: a positional call whose index is negative or >= record_count raises an
\* invalid-index error and leaves the table unchanged.
C7_InvalidIndexFails ==
    [][result'.op \in Positional /\ IndexOutside(result'.args.index)
         => /\ result'.st = "raise"
            /\ result'.err \in {"ArgumentError: Invalid record index",
                                "ArgumentError: Invalid record or field index"}
            /\ UNCHANGED <<header, records, string_block>>]_vars

\* C8: a write or write_to that returns right after a read that returned, on a
\* well-formed file, emits the file that was read.
C8_RoundTrip ==
    [][(/\ result.op = "read" /\ result.st = "ok" /\ WellFormed(result.args.file)
        /\ result'.op \in {"write", "write_to"} /\ result'.st = "ok")
         => result'.args.out = result.args.file]_vars

\* C8 witness: write_to emitted FileGood from the table read from it.
C8_Witness ==
    /\ result.op = "write_to" /\ result.st = "ok"
    /\ result.args.out = FileGood
    /\ header.record_count = 2
    /\ \A i \in 1..2 : records.slot[i].st = "live" /\ Len(records.slot[i].rec) = 2

\* Record i (1-based) as get_record is to return it: every field as its
\* declared type reads it.
RecordAsDeclared(i) ==
    RHash([j \in 1..header.field_count |->
              <<field_definitions[j][1], (CHOOSE o \in AsDeclared(i, j) : TRUE).v>>])

\* The records find_by(field, value) is to return: in table order, those whose
\* field, as its declared type reads it, is eql? to value.
ExpectedMatches(field, value) ==
    LET j == FieldIndex(HashKeys(field_definitions), field) + 1
        Matching(i) == \E o \in AsDeclared(i, j) : rb_eql(o.v, value)
        hits == SelectSeq([i \in 1..header.record_count |-> i], Matching)
    IN  [k \in 1..Len(hits) |-> RecordAsDeclared(hits[k])]

\* C9: on a table shaped as a read shapes it and whose every field is readable
\* as its declared type, find_by(f, v) for a schema field f returns, in table
\* order, the records whose f is v, the empty array when there is none, and
\* leaves the table unchanged.
C9_FindByReturnsMatches ==
    [][(/\ result'.op = "find_by"
        /\ ShapeOk
        /\ \A i \in HeldRecords : \A j \in 1..header.field_count : Resolves(i, j)
        /\ FieldIndex(HashKeys(field_definitions), result'.args.field) >= 0)
         => /\ result'.st = "ok"
            /\ result'.ret = ExpectedMatches(result'.args.field, result'.args.value)
            /\ UNCHANGED <<header, records, string_block>>]_vars

\* Whether field j of record i (both 1-based) is tagged a string and holds an
\* offset at or past string_block_size (a negative cell is an offset >= 2^31).
OffsetOutside(i, j) ==
    LET fv == records.slot[i].rec[j]
    IN  /\ fv.type = TYPE_STRING
        /\ fv.value < 0 \/ fv.value >= header.string_block_size

\* C10: on a table shaped as a read shapes it, a get_record of a record with a
\* string field whose offset is at or past string_block_size raises, and so does
\* a find_by on such a field of the first record.
C10_OffsetOutsideFails ==
    [][/\ (/\ result'.op = "get_record"
           /\ ShapeOk
           /\ ValidIndex(result'.args.index)
           /\ \E j \in 1..header.field_count : OffsetOutside(result'.args.index.s + 1, j))
          => result'.st = "raise"
       /\ (/\ result'.op = "find_by"
           /\ ShapeOk
           /\ header.record_count > 0
           /\ FieldIndex(HashKeys(field_definitions), result'.args.field) >= 0
           /\ OffsetOutside(1, FieldIndex(HashKeys(field_definitions), result'.args.field) + 1))
          => result'.st = "raise"]_vars

\* C11: the header a write or write_to that returns has emitted carries, as
\* record_count, the number of records the table holds and, as record_size,
\* 4 times the number of schema entries, whatever the stored header holds.
C11_WrittenHeaderIsLive ==
    [][result'.op \in {"write", "write_to"} /\ result'.st = "ok"
         => /\ result'.args.out.hdr[2] = Cardinality(HeldRecords)
            /\ result'.args.out.hdr[4] = 4 * Len(field_definitions)]_vars

\* Whether the hash values has no value for some field of the schema.
LacksField(values) ==
    /\ values.k = "Hash"
    /\ \E j \in 1..Len(field_definitions) :
          rb_hash_aref(values.pairs, field_definitions[j][1]) = Qnil

\* C12: a create_record_with_values whose hash lacks a value for some schema
\* field raises the missing-field error and appends nothing: record_count and
\* every record the table holds are as before the call.
C12_MissingFieldFails ==
    [][result'.op = "create_record_with_values" /\ LacksField(result'.args.values)
         => /\ result'.st = "raise"
            /\ result'.err = "ArgumentError: Missing value for field"
            /\ header'.record_count = header.record_count
            /\ \A k \in HeldRecords : records'.slot[k] = records.slot[k]]_vars

\* Whether the hash values has a key that is no field name of the schema.
HasUnknownKey(values) ==
    /\ values.k = "Hash"
    /\ \E i \in 1..Len(values.pairs) :
          FieldIndex(HashKeys(field_definitions), values.pairs[i][1]) < 0

\* C13: on a table whose field_count is the schema's length, a
\* create_record_with_values whose hash has a key that is no schema field
\* raises and appends no record.
C13_UnknownFieldFails ==
    [][(/\ result'.op = "create_record_with_values"
        /\ HasUnknownKey(result'.args.values)
        /\ header.field_count = Len(field_definitions))
         => /\ result'.st = "raise"
            /\ header'.record_count = header.record_count
            /\ \A k \in HeldRecords : records'.slot[k] = records.slot[k]]_vars

\* Whether every field of every record the table holds carries the tag of the
\* type the schema declares for its column.
AllTagsDeclared ==
    \A i \in HeldRecords : \A j \in 1..Len(records.slot[i].rec) : TagDeclared(i, j)

\* The record create_record is to append: for every column the zero value of
\* its declared type (0, 0, 0.0, offset 0).
ZeroRecord ==
    [j \in 1..Len(field_definitions) |-> FV(DeclaredType(field_definitions[j][1]), 0)]

\* C14: in every state of a table shaped as a read shapes it, every field of
\* every record carries the tag the schema declares for its column; and a
\* create_record that returns on such a table has appended the record that
\* holds, for every column, the zero value of the column's declared type.
C14_TagsAreDeclared ==
    [][/\ (ShapeOk' /\ result'.st # "crash" => AllTagsDeclared')
       /\ (result'.op = "create_record" /\ result'.st = "ok" /\ ShapeOk
             => records'.slot[header'.record_count] = LiveSlot(ZeroRecord))]_vars

\* Whether header() reports the number of schema entries as field_count and
\* every record the table holds has one value per schema entry.
OneValuePerSchemaEntry ==
    /\ rb_hash_aref(HeaderHash.pairs, RSym("field_count"))
          = RInt(0, Len(field_definitions))
    /\ \A i \in HeldRecords : Len(records.slot[i].rec) = Len(field_definitions)

\* Whether value converts to the type the schema declares for field_name.
Converts(field_name, value) ==
    LET type == ruby_to_field_type(rb_hash_aref(field_definitions, field_name))
    IN  type.st = "ok" /\ ruby_to_field_value(value, type.v, IndetFV).st = "ok"

\* C15: in every state (a table never loaded, a table loaded from a file whose
\* field_count is not the schema's length) field_count is the number of schema
\* entries and every record has one value per entry; so a get_record that
\* returns gives a hash of exactly the schema's field names, and an
\* update_record of a schema field of a valid index with a value of its type
\* returns.
C15_OneValuePerSchemaEntry ==
    /\ [](Running => OneValuePerSchemaEntry)
    /\ [][/\ (result'.op = "get_record" /\ result'.st = "ok"
                => HashKeys(result'.ret.pairs) = HashKeys(field_definitions))
          /\ ((/\ result'.op = "update_record"
               /\ ValidIndex(result'.args.index)
               /\ Converts(result'.args.field, result'.args.value))
                => result'.st = "ok")]_vars

\* The elements of the records array that point to a record buffer the table
\* allocated and has not released.
Allocated ==
    IF records.null THEN {}
    ELSE {i \in 1..Len(records.slot) : records.slot[i].st \in {"live", "orphan"}}

\* Whether every type the schema names is one of the four field types.
SchemaValid ==
    \A j \in 1..Len(field_definitions) :
       ruby_to_field_type(field_definitions[j][2]).st = "ok"

\* C16: under a schema of valid types every record buffer is released exactly
\* once.  In every state the collection of the object releases exactly the
\* buffers not yet released; a read that gets past the header releases exactly
\* the buffers the table held; a create call overwrites no pointer to an
\* unreleased buffer; a delete_record that returns has released the buffer of
\* its index and no other.
C16_ReleasedExactlyOnce ==
    /\ [](Running /\ SchemaValid => dbc_free = Allocated)
    /\ [][/\ ((/\ result'.op = "read" /\ result'.st # "crash" /\ SchemaValid
               /\ result'.args.file.exists /\ Len(result'.args.file.hdr) = 5)
                => ReadReleases(records, header'.record_count) = Allocated)
          /\ (result'.op \in {"create_record", "create_record_with_values"}
                /\ result'.st # "crash"
                => header.record_count + 1 \notin Allocated)
          /\ (result'.op = "delete_record" /\ result'.st = "ok"
                => /\ result'.args.index.s + 1 \in Allocated
                   /\ Cardinality(Allocated') = Cardinality(Allocated) - 1)]_vars

\* C17: when a read, write or write_to returns or raises, the FILE handle the
\* call opened has been closed.
C17_HandleClosed ==
    [][result'.op \in {"read", "write", "write_to"} /\ result'.st # "crash"
         => result'.handle # "open"]_vars

\* C18: on a table whose field_count is the schema's length, an update_record
\* of a schema field of a valid index with a value that does not convert to the
\* field's declared type raises the type error and leaves the record as it was,
\* the field's value and its tag included.
C18_FailedUpdateLeavesField ==
    [][(/\ result'.op = "update_record"
        /\ SchemaValid
        /\ header.field_count = Len(field_definitions)
        /\ ValidIndex(result'.args.index)
        /\ FieldIndex(HashKeys(field_definitions), result'.args.field) >= 0
        /\ ~Converts(result'.args.field, result'.args.value))
         => /\ result'.st = "raise"
            /\ result'.err = "TypeError"
            /\ records' = records]_vars

\* C19: no create_record, create_record_with_values, update_record,
\* update_record_multi or delete_record call changes the bytes of the string
\* block or string_block_size; an update_record that returns on a string field
\* of a valid index changes only that field of that record, to the offset given.
C19_MutationsKeepStrings ==
    [][/\ (result'.op \in Mutations /\ result'.st # "crash"
             => /\ string_block' = string_block
                /\ header'.string_block_size = header.string_block_size)
       /\ ((/\ result'.op = "update_record" /\ result'.st = "ok"
            /\ ValidIndex(result'.args.index)
            /\ ruby_to_field_type(rb_hash_aref(field_definitions, result'.args.field))
                  = Ok(TYPE_STRING))
             => records' = WithField(records, result'.args.index,
                                     FieldIndex(HashKeys(field_definitions),
                                                result'.args.field),
                                     FV(TYPE_STRING, NUM2UINT(result'.args.value).v)))]_vars

\* C19 witness: delete_record(0) and then update_record(0, name, 4294967295)
\* on the table read from FileGood: one record left, its name offset
\* 0xFFFFFFFF, and the four string bytes as they were read.
C19_Witness ==
    /\ result.op = "update_record" /\ result.st = "ok"
    /\ result.args.field = RSym("name")
    /\ header.record_count = 1
    /\ header.string_block_size = 4
    /\ Len(records.slot) = 2
    /\ records.slot[1] = LiveSlot(<<FV(TYPE_UINT32, 0 - 1), FV(TYPE_STRING, 0 - 1)>>)
    /\ records.slot[2] = StaleSlot
    /\ string_block = [null |-> FALSE, bytes |-> Strings]

\* C20: when the file a write has just left at @filepath is read back under
\* the same schema, header() and get_record(i) for every i < record_count
\* are what they were before the write.
C20_SaveLoadKeepsTable ==
    [][(/\ result.op = "write" /\ result.st = "ok"
        /\ result'.op = "read" /\ result'.args.file = result.args.out)
         => /\ result'.st = "ok"
            /\ HeaderHash' = HeaderHash
            /\ \A i \in 0..(header.record_count - 1) :
                  GetRecordOutcomes(RInt(0, i))' = GetRecordOutcomes(RInt(0, i))]_vars

====
